---- MODULE Spec2Model ----
(***************************************************************************)
(* The results page script static/app.js: a pie chart of the result rows   *)
(* and a Leaflet map of the run's polygons with a density layer.           *)
(*                                                                         *)
(* The script is one synchronous block (guard, chart, fetch) followed by   *)
(* a promise chain: resp.json(), the continuation that draws the map, and  *)
(* the catch handler.  Each callback runs to completion, so each is one    *)
(* action.                                                                 *)
(*                                                                         *)
(* An optional JavaScript value (undefined or null against a value) is a   *)
(* sequence of length 0 or 1.  A point is the array the payload holds:     *)
(* <<lat, lon>> or <<lat, lon, weight>>.  Weights are integers counted in  *)
(* units of 5e-10, so that the divisor floor 1e-9 is RangeFloor units; a   *)
(* fraction is a pair <<numerator, denominator>> with denominator > 0.     *)
(***************************************************************************)
EXTENDS Integers, Sequences, FiniteSets, TLC

VARIABLES
  pc,          \* where the page is: start, idle, fetching, response, parsed, rejected, done
  runId,       \* window.__RUN_ID__ as the script read it
  charts,      \* the Chart objects constructed, in order
  fetches,     \* the URLs requested with fetch, in order
  data,        \* the parsed payload handed to the continuation (None before)
  maps,        \* the number of L.map objects created
  view,        \* the map's view (<<>> while there is no map)
  tiles,       \* the number of tile layers on the map
  polyLayers,  \* the GeoJSON layers on the map
  heatLayers,  \* the heat layers on the map, each its list of heat points
  markers,     \* the circle markers on the map
  probes,      \* the values the test of L.heatLayer saw, in order
  rejection,   \* the error the promise chain is rejected with (None when it is not)
  logged,      \* what console.error received
  steps        \* history: the steps completed, in order

vars == <<pc, runId, charts, fetches, data, maps, view, tiles, polyLayers,
          heatLayers, markers, probes, rejection, logged, steps>>

----------------------------------------------------------------------------
(* Bounds of the model. *)

MaxRows == 1
MaxMixedRows == 2
MaxChartRows == 361
MaxPolys == 1
MaxPoints == 2
MaxW == 2

(* Program constants. *)

HueStep == 47
HueModulus == 360
Saturation == 60
Lightness == 55
RangeFloor == 2
FloorPercent == 5
SpanPercent == 95
Percent == 100
ViewLat == 20
ViewLon == 0
ViewZoom == 2
PadPercent == 10

None == <<>>
Some(v) == <<v>>
Has(o) == Len(o) = 1
Get(o) == o[1]

\* a ?? b
Coalesce(o, b) == IF Has(o) THEN Get(o) ELSE b

Max(a, b) == IF a >= b THEN a ELSE b
Min(a, b) == IF a <= b THEN a ELSE b

SeqsUpTo(S, n) == UNION {[1..k -> S] : k \in 0..n}

----------------------------------------------------------------------------
(* Inputs. *)

RunIds == {"", "run1"}

RowValues == {[polygon |-> "A", weight_percent |-> 30],
              [polygon |-> "B", weight_percent |-> 70]}

\* window.__RESULTS__ on the page.
PageRowLists == SeqsUpTo(RowValues, MaxRows)

\* Result tables up to the length at which the hue rotation wraps.
ChartRowLists ==
  SeqsUpTo(RowValues, MaxMixedRows)
    \cup {[k \in 1..n |-> v] : n \in 0..MaxChartRows, v \in RowValues}

Features == {[name |-> None], [name |-> Some("A")]}
Weights == 0..MaxW
OptWeights == {None} \cup {Some(w) : w \in Weights}
Points == {<<10, 20>>} \cup {<<10, 20, w>> : w \in Weights}

Payloads ==
  [polygons : SeqsUpTo(Features, MaxPolys),
   points : {None} \cup {Some(ps) : ps \in SeqsUpTo(Points, MaxPoints)},
   weight_min : OptWeights,
   weight_max : OptWeights]

----------------------------------------------------------------------------
(* The synchronous block. *)

\* Variant: the guard lets every run identifier through.
FalsyNever(rid) == FALSE

\* !runId
Falsy(rid) == rid = ""

\* Variant: a hue step of 45, which divides 360.
ColorAtStep45(i) == <<"hsl", (i * 45) % HueModulus, Saturation, Lightness>>

\* `hsl(${(i * 47) % 360} 60% 55%)`, i counted from 0
ColorAt(i) == <<"hsl", (i * HueStep) % HueModulus, Saturation, Lightness>>

\* labels, values, colors and the Chart constructed from them
BuildChart(rows) ==
  [labels |-> [k \in 1..Len(rows) |-> rows[k].polygon],
   values |-> [k \in 1..Len(rows) |-> rows[k].weight_percent],
   colors |-> [k \in 1..Len(rows) |-> ColorAt(k - 1)]]

FetchUrl(rid) == <<"/results/", rid, "/data">>

Script(RowLists) ==
  /\ pc = "start"
  /\ \E rid \in RunIds, pieCanvas \in BOOLEAN, chartLib \in BOOLEAN, rows \in RowLists :
       /\ runId' = rid
       /\ IF Falsy(rid)
            THEN /\ pc' = "idle"
                 /\ UNCHANGED <<charts, fetches, steps>>
            ELSE LET render == pieCanvas /\ chartLib /\ Len(rows) > 0 IN
                 /\ charts' = IF render THEN Append(charts, BuildChart(rows)) ELSE charts
                 /\ fetches' = Append(fetches, FetchUrl(rid))
                 /\ steps' = steps \o (IF render THEN <<"chart">> ELSE <<>>) \o <<"fetch">>
                 /\ pc' = "fetching"
  /\ UNCHANGED <<data, maps, view, tiles, polyLayers, heatLayers, markers, probes,
                 rejection, logged>>

PageScript == Script(PageRowLists)
ChartScript == Script(ChartRowLists)

----------------------------------------------------------------------------
(* The fetch and resp.json(). *)

\* The request settles: the transport rejects, or a response arrives.
FetchSettle ==
  /\ pc = "fetching"
  /\ \/ /\ pc' = "rejected"
        /\ rejection' = Some("TypeError: Failed to fetch")
     \/ /\ pc' = "response"
        /\ UNCHANGED rejection
  /\ UNCHANGED <<runId, charts, fetches, data, maps, view, tiles, polyLayers, heatLayers,
                 markers, probes, logged, steps>>

\* .then((resp) => resp.json()): the body is not JSON, or it parses to a payload.
RespJson ==
  /\ pc = "response"
  /\ \/ /\ pc' = "rejected"
        /\ rejection' = Some("SyntaxError")
        /\ UNCHANGED <<data, steps>>
     \/ /\ \E d \in Payloads : data' = Some(d)
        /\ pc' = "parsed"
        /\ steps' = Append(steps, "parse")
        /\ UNCHANGED rejection
  /\ UNCHANGED <<runId, charts, fetches, maps, view, tiles, polyLayers, heatLayers,
                 markers, probes, logged>>

----------------------------------------------------------------------------
(* The continuation .then((data) => ...). *)

DefaultView == <<"setView", ViewLat, ViewLon, ViewZoom>>
FittedView == <<"fitBounds", PadPercent>>

HasName(f) == Has(f.name)

\* L.geoJSON(data.polygons, {style, onEachFeature}): a popup per named feature
GeoJsonLayer(polygons) ==
  [features |-> polygons,
   color |-> "#1a3d5c",
   fillColor |-> "#4d8cc4",
   popups |-> LET named == SelectSeq(polygons, HasName)
              IN [k \in 1..Len(named) |-> Get(named[k].name)]]

WeightMin(d) == Coalesce(d.weight_min, 0)
WeightMax(d) == Coalesce(d.weight_max, 0)

\* Variant: the floor is added to the width instead of bounding it from below.
RangePlusEpsilon(d) == Max(0, WeightMax(d) - WeightMin(d)) + RangeFloor

\* Math.max(1e-9, weightMax - weightMin), in weight units
Range(d) == Max(RangeFloor, WeightMax(d) - WeightMin(d))

\* p[2] is there
HasWeight(p) == Len(p) >= 3

\* p[2] ?? 0
PointWeight(p) == IF HasWeight(p) THEN p[3] ELSE 0

\* Math.max(0, Math.min(1, num / den)) as a numerator over den
Clamp01(num, den) == Max(0, Min(den, num))

\* Variant: the normalised weight is not clamped.
IntensityNoClamp(w, wmin, range) ==
  <<FloorPercent * range + SpanPercent * (w - wmin), Percent * range>>

\* 0.05 + 0.95 * Math.max(0, Math.min(1, (w - weightMin) / range))
Intensity(w, wmin, range) ==
  <<FloorPercent * range + SpanPercent * Clamp01(w - wmin, range), Percent * range>>

\* data.points.map(p => [lat, lon, intensity])
HeatPoints(d) ==
  LET ps == Get(d.points) IN
  [k \in 1..Len(ps) |->
     <<ps[k][1], ps[k][2], Intensity(PointWeight(ps[k]), WeightMin(d), Range(d))>>]

\* Math.round(num / den) for num >= 0: floor(x + 0.5)
Round(num, den) == (2 * num + den) \div (2 * den)

LowColor == <<31, 157, 85>>
HighColor == <<177, 0, 38>>

\* toColor(t), t = num / den
ToColor(num, den) ==
  <<"rgb",
    Round(LowColor[1] * den + (HighColor[1] - LowColor[1]) * num, den),
    Round(LowColor[2] * den + (HighColor[2] - LowColor[2]) * num, den),
    Round(LowColor[3] * den + (HighColor[3] - LowColor[3]) * num, den)>>

\* Variant: the marker colour is taken from the floored heat intensity.
MarkerColorFloored(p, d) ==
  LET i == Intensity(PointWeight(p), WeightMin(d), Range(d)) IN ToColor(i[1], i[2])

\* the colour of the circle marker of point p
MarkerColor(p, d) == ToColor(Clamp01(PointWeight(p) - WeightMin(d), Range(d)), Range(d))

\* Variant: points that carry no weight get no marker.
MarkersWeightedOnly(d) ==
  LET ps == SelectSeq(Get(d.points), HasWeight) IN
  [k \in 1..Len(ps) |->
     [latlng |-> <<ps[k][1], ps[k][2]>>,
      color |-> MarkerColor(ps[k], d),
      fillColor |-> MarkerColor(ps[k], d)]]

\* data.points.forEach(p => L.circleMarker(...).addTo(map))
Markers(d) ==
  LET ps == Get(d.points) IN
  [k \in 1..Len(ps) |->
     [latlng |-> <<ps[k][1], ps[k][2]>>,
      color |-> MarkerColor(ps[k], d),
      fillColor |-> MarkerColor(ps[k], d)]]

\* data.points.map throws a TypeError when the payload has no points list
PointsThrow(d) == ~Has(d.points)

\* group.getBounds().pad(0.1) and fitBounds throw when the layer holds no geometry
BoundsThrow(layer) == Len(layer.features) = 0

\* Variant: no try/catch around fitBounds.
FitViewportNoCatch(layer) ==
  [view |-> IF BoundsThrow(layer) THEN DefaultView ELSE FittedView,
   thrown |-> IF BoundsThrow(layer) THEN Some("Error: Bounds are not valid.") ELSE None]

\* try { map.fitBounds(...) } catch (e) { map.setView([20, 0], 2) }
FitViewport(layer) ==
  [view |-> IF BoundsThrow(layer) THEN DefaultView ELSE FittedView,
   thrown |-> None]

ContinuationOn(d) ==
  /\ LET polyLayer == GeoJsonLayer(d.polygons)
     IN
     /\ maps' = maps + 1
     /\ tiles' = tiles + 1
     /\ polyLayers' = Append(polyLayers, polyLayer)
     /\ IF PointsThrow(d)
          THEN /\ view' = DefaultView
               /\ rejection' = Some("TypeError")
               /\ pc' = "rejected"
               /\ steps' = Append(steps, "boundaries")
               /\ UNCHANGED <<heatLayers, markers, probes>>
          ELSE \E heatLayer \in BOOLEAN :
               LET fit == FitViewport(polyLayer) IN
               /\ probes' = Append(probes, heatLayer)
               /\ heatLayers' = IF heatLayer THEN Append(heatLayers, HeatPoints(d))
                                             ELSE heatLayers
               /\ markers' = IF heatLayer THEN markers ELSE markers \o Markers(d)
               /\ view' = fit.view
               /\ rejection' = fit.thrown
               /\ pc' = IF Has(fit.thrown) THEN "rejected" ELSE "done"
               /\ steps' = steps \o <<"boundaries", "density">>
                                 \o (IF Has(fit.thrown) THEN <<>> ELSE <<"fit">>)
  /\ UNCHANGED <<runId, charts, fetches, data, logged>>

\* Variant: (data.points || []) in place of data.points.
ContinuationLenient ==
  /\ pc = "parsed"
  /\ ContinuationOn([Get(data) EXCEPT !.points = Some(Coalesce(@, <<>>))])

Continuation ==
  /\ pc = "parsed"
  /\ ContinuationOn(Get(data))

\* Variant: the catch handler swallows the error without logging it.
CatchHandlerSilent ==
  /\ pc = "rejected"
  /\ rejection' = None
  /\ pc' = "done"
  /\ UNCHANGED <<runId, charts, fetches, data, maps, view, tiles, polyLayers, heatLayers,
                 markers, probes, logged, steps>>

\* Variant: the catch handler logs and fetches again.
CatchHandlerRetry ==
  /\ pc = "rejected"
  /\ logged' = Append(logged, Get(rejection))
  /\ rejection' = None
  /\ fetches' = Append(fetches, FetchUrl(runId))
  /\ steps' = Append(steps, "fetch")
  /\ pc' = "fetching"
  /\ UNCHANGED <<runId, charts, data, maps, view, tiles, polyLayers, heatLayers,
                 markers, probes>>

\* .catch((err) => { console.error(err); })
CatchHandler ==
  /\ pc = "rejected"
  /\ logged' = Append(logged, Get(rejection))
  /\ rejection' = None
  /\ pc' = "done"
  /\ UNCHANGED <<runId, charts, fetches, data, maps, view, tiles, polyLayers, heatLayers,
                 markers, probes, steps>>

Init ==
  /\ pc = "start"
  /\ runId = ""
  /\ charts = <<>>
  /\ fetches = <<>>
  /\ data = None
  /\ maps = 0
  /\ view = <<>>
  /\ tiles = 0
  /\ polyLayers = <<>>
  /\ heatLayers = <<>>
  /\ markers = <<>>
  /\ probes = <<>>
  /\ rejection = None
  /\ logged = <<>>
  /\ steps = <<>>

Next == PageScript \/ FetchSettle \/ RespJson \/ Continuation \/ CatchHandler
Spec == Init /\ [][Next]_vars

ChartNext == ChartScript
SpecChart == Init /\ [][ChartNext]_vars

----------------------------------------------------------------------------
(* Properties. *)

Settled == pc \in {"rejected", "done"}
FetchFailed == pc = "done" /\ fetches # <<>> /\ data = None
NothingDrawn == polyLayers = <<>> /\ heatLayers = <<>> /\ markers = <<>>

\* C1 as stated: after a failed fetch (transport rejection or JSON parse failure) the
\* failure is logged and the page holds a map with the tile layer only, no polygons,
\* no points, at center [20,0] zoom 2.
C1_MapInPreLoadState ==
  FetchFailed =>
    /\ Len(logged) = 1
    /\ maps = 1 /\ tiles = 1 /\ NothingDrawn
    /\ view = <<"setView", 20, 0, 2>>

\* C1 amended: after a failed fetch (transport rejection or JSON parse failure) the
\* failure is caught and logged once, and the page holds no map at all: no map object,
\* no tile layer, no polygons, no points, no view.  No map exists in any state before
\* the payload is parsed.
C1_NoMapAfterFetchFailure ==
  /\ data = None => maps = 0 /\ tiles = 0 /\ NothingDrawn /\ view = <<>>
  /\ FetchFailed =>
       /\ Len(logged) = 1
       /\ logged[1] \in {"TypeError: Failed to fetch", "SyntaxError"}
       /\ rejection = <<>>

C1_Witness == FetchFailed /\ logged = <<"SyntaxError">> /\ maps = 0

\* C2: with a falsy run identifier the script does nothing: no fetch is issued, no
\* chart is constructed, no map, layer or marker is created.
C2_NoWorkWithoutRunId ==
  (pc # "start" /\ runId = "") =>
    /\ pc = "idle"
    /\ fetches = <<>> /\ charts = <<>>
    /\ maps = 0 /\ tiles = 0 /\ NothingDrawn /\ view = <<>>
    /\ logged = <<>> /\ steps = <<>>

C2_Witness == pc = "idle" /\ runId = "" /\ fetches = <<>>

HeatDrawn == heatLayers # <<>> /\ data # <<>>

MinOf(d) == IF Len(d.weight_min) = 1 THEN d.weight_min[1] ELSE 0
MaxOf(d) == IF Len(d.weight_max) = 1 THEN d.weight_max[1] ELSE 0
WeightAt(d, k) == IF Len(d.points[1][k]) = 3 THEN d.points[1][k][3] ELSE 0

\* C4 as stated: whenever max > min, a point of weight min gets intensity 0.05 and a
\* point of weight max gets intensity 1.0.
C4_EndpointsWheneverMaxAboveMin ==
  HeatDrawn =>
    \A k \in 1..Len(heatLayers[1]) :
      LET d == data[1]
          i == heatLayers[1][k][3]
      IN MaxOf(d) > MinOf(d) =>
           /\ WeightAt(d, k) = MinOf(d) => 20 * i[1] = i[2]
           /\ WeightAt(d, k) = MaxOf(d) => i[1] = i[2]

\* C4 amended: a point of weight min gets intensity 0.05 for every min and max, and a
\* point of weight max gets intensity 1.0 whenever max - min >= 1e-9; for
\* 0 < max - min < 1e-9 the divisor is 1e-9 and the point of weight max gets
\* 0.05 + 0.95 * (max - min) / 1e-9, which is below 1.0.
C4_EndpointsAboveRangeFloor ==
  HeatDrawn =>
    \A k \in 1..Len(heatLayers[1]) :
      LET d == data[1]
          i == heatLayers[1][k][3]
          width == MaxOf(d) - MinOf(d)
      IN /\ WeightAt(d, k) = MinOf(d) => 20 * i[1] = i[2]
         /\ (width >= 2 /\ WeightAt(d, k) = MaxOf(d)) => i[1] = i[2]
         /\ (width > 0 /\ width < 2 /\ WeightAt(d, k) = MaxOf(d)) =>
              /\ i[1] < i[2]
              /\ 200 * i[1] = (10 + 95 * width) * i[2]

C4_Witness ==
  /\ HeatDrawn
  /\ \E k \in 1..Len(heatLayers[1]) :
       /\ MaxOf(data[1]) - MinOf(data[1]) >= 2
       /\ WeightAt(data[1], k) = MaxOf(data[1])
       /\ heatLayers[1][k][3][1] = heatLayers[1][k][3][2]

StepOrder == <<"chart", "fetch", "parse", "boundaries", "density", "fit">>
StepPos(s) == CHOOSE i \in 1..Len(StepOrder) : StepOrder[i] = s
Did(s) == \E i \in 1..Len(steps) : steps[i] = s

\* C5: with a run identifier the steps happen in one fixed order, each at most once:
\* chart (when rendered) before the fetch, then parse, boundaries, density, fit; no
\* step without the ones before it, and never a second fetch, chart or map, also after
\* a failure.
C5_StepsOnceInOrder ==
  /\ \A i \in 1..Len(steps) : \A j \in 1..Len(steps) :
       i < j => StepPos(steps[i]) < StepPos(steps[j])
  /\ Len(fetches) <= 1 /\ Len(charts) <= 1 /\ maps <= 1
  /\ Len(polyLayers) <= 1 /\ Len(probes) <= 1
  /\ Did("chart") <=> charts # <<>>
  /\ Did("fetch") <=> fetches # <<>>
  /\ Did("parse") <=> data # <<>>
  /\ Did("boundaries") <=> polyLayers # <<>>
  /\ Did("density") <=> probes # <<>>
  /\ Did("fit") => pc = "done" /\ logged = <<>>
  /\ Did("chart") => Did("fetch")
  /\ Did("parse") => Did("fetch")
  /\ Did("boundaries") => Did("parse")
  /\ Did("density") => Did("boundaries")
  /\ Did("fit") => Did("density")
  /\ (pc # "start" /\ runId # "") => Did("fetch")

C5_Witness == steps = StepOrder /\ pc = "done"

\* C6: when the boundary layer holds no geometry, the viewport fit does not reject the
\* chain: the steps all complete, the view ends at center [20,0] zoom 2, and nothing
\* is logged.
C6_EmptyBoundsFallBack ==
  (polyLayers # <<>> /\ probes # <<>> /\ Len(polyLayers[1].features) = 0) =>
    /\ pc = "done"
    /\ Did("fit")
    /\ view = <<"setView", 20, 0, 2>>
    /\ rejection = <<>> /\ logged = <<>>

C6_Witness ==
  /\ pc = "done" /\ probes # <<>>
  /\ data[1].polygons = <<>>
  /\ view = <<"setView", 20, 0, 2>>
  /\ logged = <<>>

\* C7 as stated: the colour of row i has hue (i * 47) mod 360 with saturation 60% and
\* lightness 55%, and any two rows at distinct indices of one list get distinct
\* colours.
C7_AllColorsDistinct ==
  \A c \in 1..Len(charts) :
    LET colors == charts[c].colors IN
    /\ \A k \in 1..Len(colors) : colors[k] = <<"hsl", ((k - 1) * 47) % 360, 60, 55>>
    /\ \A i \in 1..Len(colors) : \A j \in 1..Len(colors) :
         i # j => colors[i] # colors[j]

\* C7 amended: the colour of row i has hue (i * 47) mod 360 with saturation 60% and
\* lightness 55%, depends on the index only, and two rows at distinct indices get
\* distinct colours exactly when their indices do not differ by a multiple of 360 (so
\* all rows of a list of at most 360 rows get distinct colours, and row 360 gets the
\* colour of row 0).
C7_ColorsDistinctWithin360 ==
  \A c \in 1..Len(charts) :
    LET colors == charts[c].colors IN
    /\ Len(colors) = Len(charts[c].labels)
    /\ \A k \in 1..Len(colors) : colors[k] = <<"hsl", ((k - 1) * 47) % 360, 60, 55>>
    /\ \A i \in 1..Len(colors) : \A j \in 1..Len(colors) :
         (colors[i] = colors[j]) <=> ((j - i) % 360 = 0)

C7_Witness ==
  /\ Len(charts) = 1
  /\ charts[1].labels = <<"A", "B">>
  /\ charts[1].values = <<30, 70>>
  /\ charts[1].colors = << <<"hsl", 0, 60, 55>>, <<"hsl", 47, 60, 55>> >>

LowRgb == <<31, 157, 85>>
HighRgb == <<177, 0, 38>>

\* C8: in the marker path every point's colour is, per channel, c0 + (c1 - c0) * t
\* rounded to the nearest integer (halves up), between rgb(31,157,85) and
\* rgb(177,0,38), with t = clamp((weight - min) / range, 0, 1) and no 0.05 floor:
\* t = 0 gives the low colour, t = 1 the high colour, t = 1/2 the rounded average.
C8_MarkerColorInterpolates ==
  \A k \in 1..Len(markers) :
    LET d == data[1]
        width == MaxOf(d) - MinOf(d)
        den == IF width > 2 THEN width ELSE 2
        raw == WeightAt(d, k) - MinOf(d)
        num == IF raw < 0 THEN 0 ELSE IF raw > den THEN den ELSE raw
        col == markers[k].color
    IN /\ col[1] = "rgb"
       /\ markers[k].fillColor = col
       /\ \A ch \in 1..3 :
            LET exact2 == 2 * (LowRgb[ch] * den + (HighRgb[ch] - LowRgb[ch]) * num)
                got2 == 2 * den * col[ch + 1]
            IN got2 - exact2 > -den /\ got2 - exact2 <= den
       /\ num = 0 => col = <<"rgb", 31, 157, 85>>
       /\ num = den => col = <<"rgb", 177, 0, 38>>
       /\ 2 * num = den => col = <<"rgb", 104, 79, 62>>

C8_Witness ==
  /\ Len(markers) >= 1
  /\ MinOf(data[1]) = 0 /\ MaxOf(data[1]) = 2
  /\ WeightAt(data[1], 1) = 1
  /\ markers[1].color = <<"rgb", 104, 79, 62>>

\* C9: the density path is chosen by one capability check: with the capability one
\* heat layer holding every point and no circle marker, without it one circle marker
\* per point and no heat layer; never both kinds on the map.
C9_OneDensityPath ==
  /\ Len(probes) <= 1
  /\ ~(heatLayers # <<>> /\ markers # <<>>)
  /\ probes = <<>> => heatLayers = <<>> /\ markers = <<>>
  /\ probes = <<TRUE>> =>
       /\ Len(heatLayers) = 1
       /\ Len(heatLayers[1]) = Len(data[1].points[1])
       /\ markers = <<>>
  /\ probes = <<FALSE>> =>
       /\ heatLayers = <<>>
       /\ Len(markers) = Len(data[1].points[1])
       /\ \A k \in 1..Len(markers) :
            markers[k].latlng = <<data[1].points[1][k][1], data[1].points[1][k][2]>>

C9_Witness ==
  /\ probes = <<FALSE>>
  /\ Len(markers) = 2
  /\ heatLayers = <<>>

NoPointsList == data # <<>> /\ data[1].points = <<>>

\* C10: when the payload has no points list, the continuation fails after the
\* boundaries are drawn: the error reaches the catch handler and is logged, density
\* rendering and the viewport fit are skipped, the polygons stay on the map and the
\* view stays at center [20,0] zoom 2.
C10_FailureAfterBoundaries ==
  (NoPointsList /\ Settled) =>
    /\ maps = 1 /\ tiles = 1
    /\ Len(polyLayers) = 1
    /\ polyLayers[1].features = data[1].polygons
    /\ heatLayers = <<>> /\ markers = <<>> /\ probes = <<>>
    /\ ~Did("density") /\ ~Did("fit")
    /\ view = <<"setView", 20, 0, 2>>
    /\ pc = "rejected" => rejection = <<"TypeError">> /\ logged = <<>>
    /\ pc = "done" => rejection = <<>> /\ logged = <<"TypeError">>

C10_Witness ==
  /\ NoPointsList /\ pc = "done"
  /\ Len(polyLayers) = 1 /\ Len(polyLayers[1].features) = 1
  /\ logged = <<"TypeError">>
  /\ view = <<"setView", 20, 0, 2>>
====
